---- MODULE Spec2Model ----
(***************************************************************************)
(* MiftahDB: a key-value facade over one SQLite table                      *)
(*   miftahDB(key TEXT PRIMARY KEY, value BLOB, expires_at INTEGER).       *)
(* The model follows src/src/bun.ts (class BaseMiftahDB), the SQL of       *)
(* src/unnamed/part_006, the codec of src/unnamed/part_002 and the helpers *)
(* of src/src/utils.ts.  Every public method is synchronous, so one call   *)
(* is one atomic step.                                                     *)
(*                                                                         *)
(* Strings (keys, prefixes) are sequences of one-character strings.        *)
(* JavaScript values are records [t, n]: t is the kind, n the integer of   *)
(* a finite number (0 otherwise).  A nullable column is <<>> (NULL) or     *)
(* <<x>>.                                                                  *)
(***************************************************************************)
EXTENDS Integers, Sequences, FiniteSets, TLC

\* store: the table, a function from the keys that have a row to their rows.
\* now: Date.now().  last: the call made last, with its Result.
\* ledger: a history variable, the running totals of the numeric calls.
VARIABLES store, now, last, ledger

vars == <<store, now, last, ledger>>

(* ------------------------------ bounds -------------------------------- *)

\* The clock runs from 1 to MaxNow; stored timestamps lie in 0..MaxNow.
MaxNow == 2

\* Finite numbers are the integers -MaxVal..MaxVal.
\* The longest key the prefix functions are applied to.
MaxKeyLen == 3

MaxVal == 2

(* --------------------------- JavaScript values ------------------------ *)

Val(t, n) == [t |-> t, n |-> n]

Num(n) == Val("number", n)

PosInf == Val("Infinity", 0)

NegInf == Val("-Infinity", 0)

NaN == Val("NaN", 0)

Str == Val("string", 0)

BigIntV == Val("bigint", 0)

Bytes == Val("Uint8Array", 0)

JsNull == Val("null", 0)

Undefined == Val("undefined", 0)

\* typeof v
typeof(v) ==
  IF v.t \in {"number", "Infinity", "-Infinity", "NaN"} THEN "number"
  ELSE IF v.t \in {"Uint8Array", "Buffer", "null"} THEN "object"
  ELSE v.t

\* isNaN(v) for a v whose typeof is "number"
isNaN(v) == v.t = "NaN"

Neg(v) ==
  IF v.t = "number" THEN Num(0 - v.n)
  ELSE IF v.t = "Infinity" THEN NegInf
  ELSE IF v.t = "-Infinity" THEN PosInf
  ELSE NaN

\* a + b on IEEE numbers
Add(a, b) ==
  IF a.t = "NaN" \/ b.t = "NaN" THEN NaN
  ELSE IF a.t = "number" /\ b.t = "number" THEN Num(a.n + b.n)
  ELSE IF a.t = "number" THEN b
  ELSE IF b.t = "number" THEN a
  ELSE IF a.t = b.t THEN a
  ELSE NaN

\* a - b on IEEE numbers
Sub(a, b) == Add(a, Neg(b))

\* JavaScript truthiness of a nullable number (number | null)
Truthy(x) == x # <<>> /\ x[1] # 0

(* ------------------------------ Result -------------------------------- *)

Error(message, key) == [message |-> message, key |-> key]

NoError == Error("", <<>>)

OK(data) == [success |-> TRUE, data |-> data, error |-> NoError]

ERR(error) == [success |-> FALSE, data |-> Undefined, error |-> error]

\* What a method body does: the store it leaves, and a return or a throw.
Return(s, result) == [store |-> s, threw |-> FALSE, result |-> result, error |-> NoError]

Throw(s, error) == [store |-> s, threw |-> TRUE, result |-> ERR(error), error |-> error]

\* The decorator: a throw of the body becomes a failure Result.
SafeExecution(o) ==
  [store |-> o.store, res |-> IF o.threw THEN ERR(o.error) ELSE o.result]

\* db.transaction(fn)(): commit what fn did, or roll back and rethrow.
transaction(before, o) == IF o.threw THEN Throw(before, o.error) ELSE o

(* ------------------------------- codec -------------------------------- *)

\* msgpack.encode throws on a type it has no writer for (bigint);
\* undefined and functions are written as nil.
encodeValue(value) ==
  IF value.t \in {"Uint8Array", "Buffer"}
    THEN [threw |-> FALSE, buf |-> [marker |-> 1, payload |-> value]]
  ELSE IF value.t = "bigint"
    THEN [threw |-> TRUE, buf |-> [marker |-> 0, payload |-> value]]
  ELSE [threw |-> FALSE,
        buf |-> [marker |-> 2,
                 payload |-> IF value.t = "undefined" THEN JsNull ELSE value]]

\* Bytes that are no msgpack encoding of anything: msgpack.decode throws.
Malformed == Val("malformed", 0)

\* An unknown marker, and msgpack.decode on bytes it cannot read, throw
\* inside the try, and the catch returns null.
decodeValue(buffer) ==
  IF buffer.marker = 1 THEN Val("Uint8Array", buffer.payload.n)
  ELSE IF buffer.marker = 3 THEN Val("Buffer", buffer.payload.n)
  ELSE IF buffer.marker = 2 /\ buffer.payload # Malformed THEN buffer.payload
  ELSE JsNull

(* --------------------------- expiresAt input -------------------------- *)

NoExpire == [k |-> "undefined", n |-> 0]

DateOf(t) == [k |-> "date", n |-> t]

Millis(n) == [k |-> "number", n |-> n]

\* expiresAtMs: undefined (bound as NULL) unless the argument is truthy.
expiresAtMs(expiresAt, t) ==
  IF expiresAt.k = "date" THEN <<expiresAt.n>>
  ELSE IF expiresAt.k = "number" /\ expiresAt.n # 0 THEN <<t + expiresAt.n>>
  ELSE <<>>

(* ------------------------------ namespaces ---------------------------- *)

\* nameSpacePrefix of the root handle (null)
Root == <<>>

startsWith(s, p) == Len(s) >= Len(p) /\ SubSeq(s, 1, Len(p)) = p

slice(s, from) == SubSeq(s, from + 1, Len(s))

\* Mutant: the prefix is put before the key without the ":".
addNamespacePrefix_NoDelimiter(p, k) == p \o k

addNamespacePrefix(p, k) == IF p # <<>> THEN p \o <<":">> \o k ELSE k

\* Mutant: the prefix is left on the key.
removeNamespacePrefix_KeepsPrefix(p, key) == key

removeNamespacePrefix(p, key) ==
  IF p # <<>> /\ startsWith(key, p \o <<":">>) THEN slice(key, Len(p) + 1) ELSE key

\* Mutant: the prefix of the handle the namespace is made from is dropped.
namespace_DropsParent(p, name) == name

\* namespace(name): the prefix of the handle it returns.  The handle is a
\* new object made from this one; the prefix is set on the new object.
namespace(p, name) == IF p # <<>> THEN p \o <<":">> \o name ELSE name

(* ---------------------------- SQL statements -------------------------- *)

Row(value, expires_at) == [value |-> value, expires_at |-> expires_at]

\* SELECT value, expires_at FROM miftahDB WHERE key = ? LIMIT 1
GET(s, key) == IF key \in DOMAIN s THEN <<s[key]>> ELSE <<>>

\* INSERT OR REPLACE INTO miftahDB (key, value, expires_at) VALUES (?, ?, ?)
SET(s, key, value, expires_at) ==
  [store |-> [x \in DOMAIN s \cup {key} |->
                IF x = key THEN Row(value, expires_at) ELSE s[x]],
   changes |-> 1]

\* DELETE FROM miftahDB WHERE key = ?
DELETE(s, key) ==
  [store |-> [x \in DOMAIN s \ {key} |-> s[x]],
   changes |-> IF key \in DOMAIN s THEN 1 ELSE 0]

\* UPDATE OR IGNORE miftahDB SET key = ? WHERE key = ?
\* A row whose new key would collide with another row is skipped (IGNORE).
RENAME(s, newKey, oldKey) ==
  IF oldKey \notin DOMAIN s THEN [store |-> s, changes |-> 0]
  ELSE IF newKey = oldKey THEN [store |-> s, changes |-> 1]
  ELSE IF newKey \in DOMAIN s THEN [store |-> s, changes |-> 0]
  ELSE [store |-> [x \in (DOMAIN s \ {oldKey}) \cup {newKey} |->
                     IF x = newKey THEN s[oldKey] ELSE s[x]],
        changes |-> 1]

(* The statements below are prepared by prepareStatements but their SQL is  *)
(* not part of the sources at hand; they are written from the description   *)
(* of the operations (one table, key LIKE pattern, expires_at tests).       *)

\* The characters of the keys, in code-point order.
Alphabet == <<"%", ":", "_", "a", "k">>

Code(c) == CHOOSE i \in 1..Len(Alphabet) : Alphabet[i] = c

\* a < b in the BINARY collation
RECURSIVE Less(_, _)
Less(a, b) ==
  IF b = <<>> THEN FALSE
  ELSE IF a = <<>> THEN TRUE
  ELSE IF a[1] = b[1] THEN Less(Tail(a), Tail(b))
  ELSE Code(a[1]) < Code(b[1])

\* The keys of S in the order of the primary-key b-tree (WITHOUT ROWID).
RECURSIVE KeyOrder(_)
KeyOrder(S) ==
  IF S = {} THEN <<>>
  ELSE LET m == CHOOSE x \in S : \A y \in S : x = y \/ Less(x, y)
       IN <<m>> \o KeyOrder(S \ {m})

\* str LIKE pat: % matches any run of characters, _ any one character.
RECURSIVE LIKE(_, _)
LIKE(str, pat) ==
  IF pat = <<>> THEN str = <<>>
  ELSE IF pat[1] = "%"
    THEN LIKE(str, Tail(pat)) \/ (str # <<>> /\ LIKE(Tail(str), pat))
  ELSE /\ str # <<>>
       /\ (pat[1] = "_" \/ pat[1] = str[1])
       /\ LIKE(Tail(str), Tail(pat))

\* SELECT EXISTS (SELECT 1 FROM miftahDB WHERE key = ?)
EXISTS(s, key) == IF key \in DOMAIN s THEN 1 ELSE 0

\* SELECT expires_at FROM miftahDB WHERE key = ?
GET_EXPIRE(s, key) ==
  IF key \in DOMAIN s THEN <<[expires_at |-> s[key].expires_at]>> ELSE <<>>

\* UPDATE miftahDB SET expires_at = ? WHERE key = ?
SET_EXPIRE(s, expires_at, key) ==
  [store |-> [x \in DOMAIN s |->
                IF x = key THEN Row(s[x].value, expires_at) ELSE s[x]],
   changes |-> IF key \in DOMAIN s THEN 1 ELSE 0]

\* UPDATE miftahDB SET expires_at = NULL WHERE key = ?
PERSIST(s, key) == SET_EXPIRE(s, <<>>, key)

\* The keys of the rows WHERE key LIKE ?
Matching(s, pattern) == {key \in DOMAIN s : LIKE(key, pattern)}

\* The keys of the rows WHERE expires_at IS NOT NULL AND expires_at <= ?
\* AND key LIKE ?
MatchingExpired(s, t, pattern) ==
  {key \in Matching(s, pattern) :
     s[key].expires_at # <<>> /\ s[key].expires_at[1] <= t}

\* SELECT key FROM miftahDB WHERE key LIKE ?
KEYS(s, pattern) == KeyOrder(Matching(s, pattern))

\* SELECT key FROM miftahDB WHERE key LIKE ? LIMIT ? OFFSET ?
\* A negative LIMIT is no limit, a negative OFFSET is 0.
PAGINATION(s, pattern, limit, offset) ==
  LET all == KEYS(s, pattern)
      from == IF offset < 0 THEN 0 ELSE offset
      to == IF limit < 0 \/ from + limit > Len(all) THEN Len(all) ELSE from + limit
  IN SubSeq(all, from + 1, to)

\* SELECT key FROM miftahDB WHERE key LIKE ? AND expires_at BETWEEN ? AND ?
\* A NULL bound (undefined) matches no row.
GET_EXPIRED_RANGE(s, pattern, start, end) ==
  KeyOrder({key \in Matching(s, pattern) :
              /\ start # <<>> /\ end # <<>> /\ s[key].expires_at # <<>>
              /\ start[1] <= s[key].expires_at[1]
              /\ s[key].expires_at[1] <= end[1]})

\* SELECT COUNT(*) AS count FROM miftahDB WHERE key LIKE ?
COUNT_KEYS(s, pattern) == Cardinality(Matching(s, pattern))

\* SELECT COUNT(*) AS count FROM miftahDB
\* WHERE expires_at IS NOT NULL AND expires_at <= ? AND key LIKE ?
COUNT_EXPIRED(s, t, pattern) == Cardinality(MatchingExpired(s, t, pattern))

\* DELETE FROM miftahDB
\* WHERE expires_at IS NOT NULL AND expires_at <= ? AND key LIKE ?
CLEANUP(s, t, pattern) ==
  [store |-> [x \in DOMAIN s \ MatchingExpired(s, t, pattern) |-> s[x]],
   changes |-> Cardinality(MatchingExpired(s, t, pattern))]

\* DELETE FROM miftahDB WHERE key LIKE ?
FLUSH(s, pattern) ==
  [store |-> [x \in DOMAIN s \ Matching(s, pattern) |-> s[x]],
   changes |-> Cardinality(Matching(s, pattern))]

(* ------------------------------- methods ------------------------------ *)
(* Each takes the store s, the clock t (Date.now()) and the handle's       *)
(* nameSpacePrefix p, and gives [store, res]: the store it leaves and the  *)
(* Result it returns.                                                      *)

\* delete(key)
delete(s, p, key) ==
  LET result == DELETE(s, addNamespacePrefix(p, key))
  IN SafeExecution(Return(result.store, OK(Num(result.changes))))

\* get(key): the expired branch calls this.delete with the prefixed key
get(s, t, p, key) ==
  LET prefixedKey == addNamespacePrefix(p, key)
      result == GET(s, prefixedKey)
  IN SafeExecution(
       IF result = <<>> THEN Throw(s, Error("Key not found, cannot get.", <<>>))
       ELSE IF Truthy(result[1].expires_at) /\ result[1].expires_at[1] <= t
         THEN Throw(delete(s, p, prefixedKey).store,
                    Error("Key expired, cannot get.", <<>>))
       ELSE Return(s, OK(decodeValue(result[1].value))))

\* set(key, value, expiresAt)
set(s, t, p, key, value, expiresAt) ==
  LET prefixedKey == addNamespacePrefix(p, key)
      encoded == encodeValue(value)
  IN SafeExecution(
       IF encoded.threw THEN Throw(s, Error("Unsupported type", <<>>))
       ELSE Return(SET(s, prefixedKey, encoded.buf, expiresAtMs(expiresAt, t)).store,
                   OK(Undefined)))

\* Mutant: the expiration of an alive row is not carried over.
currentOf_DropsExpiration(t, p, prefixedKey, getResult) ==
  IF getResult # <<>> THEN
    IF Truthy(getResult[1].expires_at) /\ getResult[1].expires_at[1] <= t
      THEN [threw |-> FALSE, currentValue |-> Num(0), expiresAt |-> <<>>,
            error |-> NoError]
    ELSE LET decoded == decodeValue(getResult[1].value) IN
      IF typeof(decoded) # "number" \/ isNaN(decoded)
        THEN [threw |-> TRUE, currentValue |-> Num(0), expiresAt |-> <<>>,
              error |-> Error("Value for key is not a number.",
                              removeNamespacePrefix(p, prefixedKey))]
      ELSE [threw |-> FALSE, currentValue |-> decoded, expiresAt |-> <<>>,
            error |-> NoError]
  ELSE [threw |-> FALSE, currentValue |-> Num(0), expiresAt |-> <<>>,
        error |-> NoError]

\* The read-decode-check part of _modifyNumericValue's transaction body.
currentOf(t, p, prefixedKey, getResult) ==
  IF getResult # <<>> THEN
    IF Truthy(getResult[1].expires_at) /\ getResult[1].expires_at[1] <= t
      THEN [threw |-> FALSE, currentValue |-> Num(0), expiresAt |-> <<>>,
            error |-> NoError]
    ELSE LET decoded == decodeValue(getResult[1].value) IN
      IF typeof(decoded) # "number" \/ isNaN(decoded)
        THEN [threw |-> TRUE, currentValue |-> Num(0), expiresAt |-> <<>>,
              error |-> Error("Value for key is not a number.",
                              removeNamespacePrefix(p, prefixedKey))]
      ELSE [threw |-> FALSE, currentValue |-> decoded,
            expiresAt |-> getResult[1].expires_at, error |-> NoError]
  ELSE [threw |-> FALSE, currentValue |-> Num(0), expiresAt |-> <<>>,
        error |-> NoError]

\* Mutant: the row is read under the key as passed, without the prefix.
modifyNumericValue_ReadsUnprefixed(s, t, p, key, amount, operation) ==
  LET prefixedKey == addNamespacePrefix(p, key)
      getResult == GET(s, key)
      cur == currentOf(t, p, prefixedKey, getResult)
      newValue == IF operation = "increment" THEN Add(cur.currentValue, amount)
                  ELSE Sub(cur.currentValue, amount)
      setOpResult == SET(s, prefixedKey, encodeValue(newValue).buf, cur.expiresAt)
  IN transaction(s,
       IF cur.threw THEN Throw(s, cur.error)
       ELSE Return(setOpResult.store, OK(newValue)))

\* _modifyNumericValue(key, amount, operation)
modifyNumericValue(s, t, p, key, amount, operation) ==
  LET prefixedKey == addNamespacePrefix(p, key)
      getResult == GET(s, prefixedKey)
      cur == currentOf(t, p, prefixedKey, getResult)
      newValue == IF operation = "increment" THEN Add(cur.currentValue, amount)
                  ELSE Sub(cur.currentValue, amount)
      setOpResult == SET(s, prefixedKey, encodeValue(newValue).buf, cur.expiresAt)
  IN transaction(s,
       IF cur.threw THEN Throw(s, cur.error)
       ELSE IF setOpResult.changes = 0 /\ getResult # <<>>
         THEN Throw(setOpResult.store,
                    Error("Failed to update the key during numeric operation.", <<>>))
       ELSE Return(setOpResult.store, OK(newValue)))

\* Mutant: NaN passes.
validAmount_TypeOnly(amount) == typeof(amount) = "number"

\* The check that increment and decrement make before the transaction.
validAmount(amount) == ~(typeof(amount) # "number" \/ isNaN(amount))

\* increment(key, amount = 1)
increment(s, t, p, key, amountArg) ==
  LET amount == IF amountArg = Undefined THEN Num(1) ELSE amountArg
  IN SafeExecution(
       IF ~validAmount(amount)
         THEN Throw(s, Error("Increment amount must be a valid number.", <<>>))
       ELSE modifyNumericValue(s, t, p, key, amount, "increment"))

\* decrement(key, amount = 1)
decrement(s, t, p, key, amountArg) ==
  LET amount == IF amountArg = Undefined THEN Num(1) ELSE amountArg
  IN SafeExecution(
       IF ~validAmount(amount)
         THEN Throw(s, Error("Decrement amount must be a valid number.", <<>>))
       ELSE modifyNumericValue(s, t, p, key, amount, "decrement"))

Entry(key, value, expiresAt) == [key |-> key, value |-> value, expiresAt |-> expiresAt]

\* The loop of multiSet: this.set for each entry, its Result dropped.
RECURSIVE setEach(_, _, _, _)
setEach(s, t, p, entries) ==
  IF entries = <<>> THEN s
  ELSE setEach(set(s, t, p, entries[1].key, entries[1].value,
                   entries[1].expiresAt).store,
               t, p, Tail(entries))

\* multiSet(entries)
multiSet(s, t, p, entries) ==
  SafeExecution(transaction(s, Return(setEach(s, t, p, entries), OK(Undefined))))

\* result[name] = value on the object result: a property already there
\* keeps its place and takes the value, a new one is added last.
assign(result, name, value) ==
  IF \E i \in 1..Len(result) : result[i].name = name
    THEN [i \in 1..Len(result) |->
            IF result[i].name = name THEN [name |-> name, value |-> value]
            ELSE result[i]]
  ELSE Append(result, [name |-> name, value |-> value])

\* The decimal digits, "0" first.
Digits == <<"0", "1", "2", "3", "4", "5", "6", "7", "8", "9">>

\* A property name that is an array index: a canonical decimal numeral.
IsArrayIndex(name) ==
  /\ name # <<>>
  /\ \A i \in 1..Len(name) : \E d \in 1..Len(Digits) : Digits[d] = name[i]
  /\ Len(name) > 1 => name[1] # "0"

RECURSIVE IndexValue(_)
IndexValue(name) ==
  IF name = <<>> THEN 0
  ELSE LET front == SubSeq(name, 1, Len(name) - 1)
           d == CHOOSE i \in 1..Len(Digits) : Digits[i] = name[Len(name)]
       IN IndexValue(front) * 10 + (d - 1)

\* The properties of a set, by ascending array index.
RECURSIVE IndexOrder(_)
IndexOrder(S) ==
  IF S = {} THEN <<>>
  ELSE LET least == CHOOSE x \in S :
                      \A y \in S : IndexValue(x.name) <= IndexValue(y.name)
       IN <<least>> \o IndexOrder(S \ {least})

IsNamed(property) == ~IsArrayIndex(property.name)

\* Object.values(result): the properties whose names are array indices
\* first, by ascending index, then the others in the order they were added.
ObjectValues(result) ==
  LET indexed == {result[i] : i \in {j \in 1..Len(result) : IsArrayIndex(result[j].name)}}
      own == IndexOrder(indexed) \o SelectSeq(result, IsNamed)
  IN [i \in 1..Len(own) |-> own[i].value]

\* A list of values as the data of a Result.
ValueList(list) == [t |-> "array", list |-> list]

\* The loop of multiGet: this.get for each key, the value kept under
\* removeNamespacePrefix(k) when the get succeeds.
RECURSIVE getEach(_, _, _, _, _)
getEach(s, t, p, keyList, result) ==
  IF keyList = <<>> THEN [store |-> s, result |-> result]
  ELSE LET value == get(s, t, p, keyList[1])
       IN getEach(value.store, t, p, Tail(keyList),
                  IF value.res.success
                    THEN assign(result, removeNamespacePrefix(p, keyList[1]),
                                value.res.data)
                  ELSE result)

\* Mutant: an empty list is taken as a request for nothing.
multiGet_EmptyIsNoOp(s, t, p, keyList) ==
  IF Len(keyList) = 0 THEN SafeExecution(Return(s, OK(ValueList(<<>>))))
  ELSE LET done == getEach(s, t, p, keyList, <<>>)
       IN SafeExecution(
            IF Len(done.result) = 0
              THEN Throw(done.store, Error("No keys found, cannot multiGet.", <<>>))
            ELSE Return(done.store, OK(ValueList(ObjectValues(done.result)))))

\* multiGet(keys)
multiGet(s, t, p, keyList) ==
  SafeExecution(
    IF Len(keyList) = 0
      THEN Throw(s, Error("No keys provided, cannot multiGet.", <<>>))
    ELSE LET done == getEach(s, t, p, keyList, <<>>)
             committed == transaction(s, Return(done.store, OK(Undefined))).store
             resultArray == ObjectValues(done.result)
         IN IF Len(resultArray) = 0
              THEN Throw(committed, Error("No keys found, cannot multiGet.", <<>>))
            ELSE Return(committed, OK(ValueList(resultArray))))

\* The loop of multiDelete: this.delete for each key, the rows the engine
\* reports as changed added up.
RECURSIVE deleteEach(_, _, _, _)
deleteEach(s, p, keyList, totalDeletedRows) ==
  IF keyList = <<>> THEN [store |-> s, totalDeletedRows |-> totalDeletedRows]
  ELSE LET deleteResult == delete(s, p, keyList[1])
       IN deleteEach(deleteResult.store, p, Tail(keyList),
                     IF deleteResult.res.success
                       THEN totalDeletedRows + deleteResult.res.data.n
                     ELSE totalDeletedRows)

\* Mutant: the keys asked for are counted, not the rows removed.
multiDelete_CountsKeys(s, p, keyList) ==
  SafeExecution(
    IF Len(keyList) = 0
      THEN Throw(s, Error("No keys provided, cannot multiDelete.", <<>>))
    ELSE Return(deleteEach(s, p, keyList, 0).store, OK(Num(Len(keyList)))))

\* multiDelete(keys)
multiDelete(s, p, keyList) ==
  SafeExecution(
    IF Len(keyList) = 0
      THEN Throw(s, Error("No keys provided, cannot multiDelete.", <<>>))
    ELSE LET done == deleteEach(s, p, keyList, 0)
         IN transaction(s, Return(done.store, OK(Num(done.totalDeletedRows)))))

\* Mutant: the new key is bound without the namespace prefix.
rename_NewKeyUnprefixed(s, p, oldKey, newKey) ==
  SafeExecution(
    Return(RENAME(s, newKey, addNamespacePrefix(p, oldKey)).store,
           OK(Undefined)))

\* rename(oldKey, newKey)
rename(s, p, oldKey, newKey) ==
  SafeExecution(
    Return(RENAME(s, addNamespacePrefix(p, newKey),
                  addNamespacePrefix(p, oldKey)).store,
           OK(Undefined)))

\* setExpire(key, expiresAt)
setExpire(s, t, p, key, expiresAt) ==
  SafeExecution(
    Return(SET_EXPIRE(s, expiresAtMs(expiresAt, t),
                      addNamespacePrefix(p, key)).store,
           OK(Undefined)))

\* ttl(key): the expired branch calls this.delete with the prefixed key
ttl(s, t, p, key) ==
  LET prefixedKey == addNamespacePrefix(p, key)
      result == GET_EXPIRE(s, prefixedKey)
  IN SafeExecution(
       IF result = <<>> THEN Throw(s, Error("Key not found, cannot ttl.", <<>>))
       ELSE IF result[1].expires_at = <<>> THEN Return(s, OK(JsNull))
       ELSE IF result[1].expires_at[1] <= t
         THEN Throw(delete(s, p, prefixedKey).store,
                    Error("Key expired, cannot ttl.", <<>>))
       ELSE Return(s, OK(Num(result[1].expires_at[1] - t))))

\* exists(key): one SELECT, no test of the expiration, no delete
exists(s, p, key) ==
  LET prefixedKey == addNamespacePrefix(p, key)
      doExists == EXISTS(s, prefixedKey) # 0
  IN SafeExecution(
       IF ~doExists THEN Throw(s, Error("Key not found, cannot check exists.", <<>>))
       ELSE Return(s, OK(Val("boolean", 1))))

\* new Date(ms) as the data of a Result
DateValue(ms) == Val("Date", ms)

\* getExpire(key): !result.expires_at is true of NULL and of 0
getExpire(s, p, key) ==
  LET prefixedKey == addNamespacePrefix(p, key)
      result == GET_EXPIRE(s, prefixedKey)
  IN SafeExecution(
       IF result = <<>> THEN Throw(s, Error("Key not found, cannot getExpire.", <<>>))
       ELSE IF ~Truthy(result[1].expires_at)
         THEN Throw(s, Error("Key has no expiration, cannot getExpire.", <<>>))
       ELSE Return(s, OK(DateValue(result[1].expires_at[1]))))

\* Mutant: the row is found and the expiration is left as it is.
persist_KeepsExpiration(s, p, key) ==
  SafeExecution(
    IF EXISTS(s, addNamespacePrefix(p, key)) = 0
      THEN Throw(s, Error("Key not found, cannot persist.", <<>>))
    ELSE Return(s, OK(Val("boolean", 1))))

\* persist(key)
persist(s, p, key) ==
  LET prefixedKey == addNamespacePrefix(p, key)
      existsCheck == EXISTS(s, prefixedKey)
  IN SafeExecution(
       IF existsCheck = 0
         THEN Throw(s, Error("Key not found, cannot persist.", <<>>))
       ELSE Return(PERSIST(s, prefixedKey).store, OK(Val("boolean", 1))))

\* result.map((r) => this.removeNamespacePrefix(r.key))
stripAll(p, result) == [i \in 1..Len(result) |-> removeNamespacePrefix(p, result[i])]

\* A list of keys as the data of a Result.
KeyList(list) == [t |-> "array", list |-> list]

\* keys(pattern = "%")
keys(s, p, pattern) ==
  LET result == KEYS(s, addNamespacePrefix(p, pattern))
  IN SafeExecution(
       IF Len(result) = 0
         THEN Throw(s, Error("No keys found, cannot get keys.", <<>>))
       ELSE Return(s, OK(KeyList(stripAll(p, result)))))

\* Mutant: the page number is bound as the OFFSET.
pagination_PageIsOffset(s, p, limit, page, pattern) ==
  LET result == PAGINATION(s, addNamespacePrefix(p, pattern), limit, page)
  IN SafeExecution(
       IF Len(result) = 0
         THEN Throw(s, Error("No keys found, cannot get pagination.", <<>>))
       ELSE Return(s, OK(KeyList(stripAll(p, result)))))

\* pagination(limit, page, pattern = "%")
pagination(s, p, limit, page, pattern) ==
  LET offset == (page - 1) * limit
      result == PAGINATION(s, addNamespacePrefix(p, pattern), limit, offset)
  IN SafeExecution(
       IF Len(result) = 0
         THEN Throw(s, Error("No keys found, cannot get pagination.", <<>>))
       ELSE Return(s, OK(KeyList(stripAll(p, result)))))

\* expiredRange(start, end, pattern = "%")
expiredRange(s, t, p, start, end, pattern) ==
  LET result == GET_EXPIRED_RANGE(s, addNamespacePrefix(p, pattern),
                                  expiresAtMs(start, t), expiresAtMs(end, t))
  IN SafeExecution(
       IF Len(result) = 0
         THEN Throw(s, Error("No keys found, cannot get expiredRange.", <<>>))
       ELSE Return(s, OK(KeyList(stripAll(p, result)))))

\* count(pattern = "%")
count(s, p, pattern) ==
  SafeExecution(Return(s, OK(Num(COUNT_KEYS(s, addNamespacePrefix(p, pattern))))))

\* countExpired(pattern = "%")
countExpired(s, t, p, pattern) ==
  SafeExecution(
    Return(s, OK(Num(COUNT_EXPIRED(s, t, addNamespacePrefix(p, pattern))))))

\* cleanup()
cleanup(s, t, p) ==
  LET result == CLEANUP(s, t, addNamespacePrefix(p, <<"%">>))
  IN SafeExecution(Return(result.store, OK(Num(result.changes))))

\* flush()
flush(s, p) ==
  LET result == FLUSH(s, addNamespacePrefix(p, <<"%">>))
  IN SafeExecution(Return(result.store, OK(Num(result.changes))))

\* execute(sql, params) with the text of SET as sql: the statement is no
\* reader, so it is run, and the BLOB is stored as it is passed.
execute(s, key, value, expires_at) ==
  SafeExecution(Return(SET(s, key, value, expires_at).store, OK(Num(1))))

\* What the engine throws when a statement cannot run: the store is closed,
\* the file cannot be written, the disk is full.
EngineError == Error("SQLiteError", <<>>)

\* A decorated method whose first call on the engine throws.
engineThrows(s) == SafeExecution(Throw(s, EngineError))

\* The promise an async function returns: fulfilled with what the body
\* returns, rejected with what it throws.  Nothing is thrown at the caller.
Fulfilled(value) == [promise |-> "fulfilled", value |-> value]

Rejected(reason) == [promise |-> "rejected", reason |-> reason]

async(o) == Return(o.store, IF o.threw THEN Rejected(o.error) ELSE Fulfilled(o.result))

\* backup(path): db.serialize() throws on a closed store, writeFile rejects
\* on a path that cannot be written.
backup(s, serializeThrows, writeFileRejects) ==
  SafeExecution(async(
    IF serializeThrows THEN Throw(s, EngineError)
    ELSE IF writeFileRejects THEN Throw(s, Error("ENOENT", <<>>))
    ELSE Return(s, OK(Undefined))))

\* A file to restore from: none under that path, or the image of a store.
NoFile == [found |-> FALSE, image |-> <<>>]

FileOf(image) == [found |-> TRUE, image |-> image]

\* restore(path): readFile rejects when there is no file; otherwise the
\* store is replaced by the one the file holds.
restore(s, file) ==
  SafeExecution(async(
    IF ~file.found THEN Throw(s, Error("ENOENT", <<>>))
    ELSE Return(file.image, OK(Undefined))))

(* ------------------------------- inputs ------------------------------- *)

\* db and db.namespace("a")
Handles == {Root, namespace(Root, <<"a">>)}

\* The keys a caller passes to a handle.  Root's "a:k" and the namespace's
\* "k" name the same row.
KeysOf(h) == IF h = Root THEN {<<"k">>, <<"a", ":", "k">>} ELSE {<<"k">>}

\* Inputs of Spec.
SetValues == {Num(1), Str, BigIntV}

ExpireInputs ==
  {NoExpire} \cup {DateOf(d) : d \in 0..MaxNow} \cup {Millis(n) : n \in -1..1}

BatchEntries(h) == {Entry(k, v, NoExpire) : k \in KeysOf(h), v \in {Num(1), BigIntV}}

Batches(h) ==
  {<<e>> : e \in BatchEntries(h)} \cup
  {<<e1, e2>> : e1 \in BatchEntries(h), e2 \in BatchEntries(h)}

\* Inputs of SpecNumeric and SpecInfinity.  An undefined amount takes the
\* default, 1.
NumSetValues == {Num(1), Str, NaN}

NumExpireInputs == {NoExpire, DateOf(0), DateOf(MaxNow)}

NumAmounts == {Undefined, Num(2), NaN, Str}

InfSetValues == {Num(1)}

InfExpireInputs == {NoExpire, DateOf(MaxNow)}

InfAmounts == {Undefined, PosInf, NegInf}

\* Inputs of SpecLedger.
LedgerSetValues == {Num(1)}

LedgerExpireInputs == {NoExpire, DateOf(MaxNow)}

LedgerAmounts == {Undefined, Num(2)}

\* Inputs of SpecExpire: every form of expiresAt.
ExpireValues == {Num(1)}

\* Inputs of SpecRename.  Through either handle the keys "k" and "a:k": the
\* namespace's "a:k" is the row a:a:k, the "k" of the nested namespace a:a.
NestedKeysOf(h) == {<<"k">>, <<"a", ":", "k">>}

\* Inputs of SpecNamespace: the root's "k" and the namespace's "k" and "a:k".
NamespaceKeysOf(h) == IF h = Root THEN {<<"k">>} ELSE NestedKeysOf(h)

NamespaceValues == {Num(1)}

\* DateOf(1) is in the past from the start.
NamespaceExpireInputs == {NoExpire, DateOf(1)}

RenameValues == {Num(1), Str}

RenameExpireInputs == {NoExpire, DateOf(MaxNow)}

\* Inputs of SpecScope: db, db.namespace("a") and db.namespace("_"), each
\* with the key "k".
ScopeHandles == {Root, namespace(Root, <<"a">>), namespace(Root, <<"_">>)}

ScopeKeys == {<<"k">>}

ScopeValues == {Num(1)}

ScopeExpireInputs == {NoExpire, DateOf(1), DateOf(MaxNow)}

\* "%" is the default pattern.
Patterns == {<<"%">>, <<"k">>}

Limits == {1, 2}

Pages == {1, 2}

RangeBounds == {DateOf(1), DateOf(MaxNow)}

\* Inputs of SpecRead.
ReadValues == {Num(1)}

ReadExpireInputs == {NoExpire} \cup {DateOf(d) : d \in 0..MaxNow}

\* Inputs of SpecRoundTrip: a value of each way through the codec (msgpack
\* text, a float that is no number, a Date, a Node.js Buffer) and an
\* expiresAt that is absent or a Date.
RoundTripValues == {Str, NaN, Val("Date", 1), Val("Buffer", 0)}

RoundTripExpireInputs == {NoExpire, DateOf(MaxNow)}

\* Inputs of SpecResult.  The decorated methods that are not async; the
\* files restore can be given: none, an empty store, the store as it is.
SyncMethods ==
  {"get", "set", "exists", "delete", "rename", "setExpire", "getExpire", "ttl",
   "persist", "increment", "decrement", "keys", "pagination", "expiredRange",
   "count", "countExpired", "multiGet", "multiSet", "multiDelete", "cleanup",
   "flush", "vacuum", "close", "execute"}

RestoreFiles(s) == {NoFile, FileOf(<<>>), FileOf(s)}

ResultValues == {Num(1)}

ResultExpireInputs == {NoExpire, DateOf(MaxNow)}

\* Inputs of SpecDecode.  The BLOBs written past the codec: one with a
\* marker the codec does not know, one whose msgpack bytes are cut short,
\* and one the codec could have written.
RawBuffers ==
  {[marker |-> 0, payload |-> Str],
   [marker |-> 2, payload |-> Malformed],
   [marker |-> 2, payload |-> Str]}

RawExpirations == {<<>>, <<MaxNow>>}

DecodeValues == {Num(1), JsNull}

DecodeExpireInputs == {NoExpire, DateOf(MaxNow)}

\* Inputs of SpecBatch: the lists of at most two keys, a key twice included.
BatchValues == {Num(1), Str}

BatchExpireInputs == {NoExpire, DateOf(MaxNow)}

KeyLists(h) ==
  {<<>>} \cup {<<k>> : k \in NestedKeysOf(h)} \cup
  {<<k1, k2>> : k1 \in NestedKeysOf(h), k2 \in NestedKeysOf(h)}

\* Inputs of SpecRange: bounds passed as numbers, rows expiring at every
\* instant of the clock.
RangeHandles == {Root, namespace(Root, <<"a">>)}

RangeExpireInputs == {NoExpire} \cup {DateOf(d) : d \in 0..MaxNow}

NumericBounds == {Millis(n) : n \in 0..MaxNow}

\* Inputs of SpecPersist.
PersistValues == {Num(1), Str}

PersistExpireInputs == {NoExpire} \cup {DateOf(d) : d \in 1..MaxNow}

\* Inputs of SpecPages: up to three rows in the scope of the root, two in
\* the scope of the namespace, and pages up to one past the last.
PageValues == {Num(1)}

PageExpireInputs == {NoExpire, DateOf(1)}

PageNumbers == {1, 2, 3}

\* Inputs of SpecNesting: the root, the namespace a, and the namespace b
\* made from a.  Through each handle its own "k" and, through the root and
\* a, the names of the row the nested handle calls "k".
NestedHandle == namespace(namespace(Root, <<"a">>), <<"b">>)

NestingHandles == {Root, namespace(Root, <<"a">>), NestedHandle}

NestingNames == {<<"a">>, <<"b">>}

NestingKeysOf(h) ==
  IF h = Root THEN {<<"k">>, <<"a", ":", "b", ":", "k">>}
  ELSE IF h = <<"a">> THEN {<<"k">>, <<"b", ":", "k">>}
  ELSE {<<"k">>}

NestingValues == {Num(1), Str}

NestingExpireInputs == {NoExpire, DateOf(MaxNow)}

\* Inputs of SpecReads.
ReadsValues == {Num(1)}

ReadsExpireInputs == {NoExpire, DateOf(MaxNow)}

\* Inputs of SpecPrefix: every string of at most MaxKeyLen characters out of
\* "a", ":" and "k", through the root, a namespace and a nested namespace.
PrefixChars == {"a", ":", "k"}

PrefixKeys == UNION {[1..n -> PrefixChars] : n \in 1..MaxKeyLen}

PrefixHandles == {Root, namespace(Root, <<"a">>), namespace(<<"a">>, <<"a">>)}

\* Inputs of SpecOrder: keys that are numerals, values that tell the rows
\* apart, and every list of one or two keys.
OrderKeys == {<<"1">>, <<"2">>}

OrderValues == {Num(1), Num(2)}

OrderExpireInputs == {NoExpire, DateOf(1)}

OrderKeyLists ==
  {<<k>> : k \in OrderKeys} \cup {<<k1, k2>> : k1 \in OrderKeys, k2 \in OrderKeys}

\* The rows the bounds admit.
Fits(s) ==
  \A key \in DOMAIN s :
    /\ s[key].expires_at # <<>> => s[key].expires_at[1] \in 0..MaxNow
    /\ s[key].value.payload.t = "number" =>
         s[key].value.payload.n \in (0 - MaxVal)..MaxVal

(* ------------------------------- ledger ------------------------------- *)
(* For every key an account of the numeric calls made on it since it was   *)
(* last absent or an alive number and nothing else wrote it: the total     *)
(* the calls add up to, and the handles they came through.  The total is   *)
(* computed from the amounts alone, never read from the store.             *)

Call(op, h, key, amount, batch, res) ==
  [op |-> op, h |-> h, key |-> key, amount |-> amount, batch |-> batch, res |-> res]

\* A call with an argument besides the key: the new key of rename, the
\* expiresAt of setExpire, the pattern, page or range of an enumeration.
CallArg(op, h, key, arg, res) ==
  [op |-> op, h |-> h, key |-> key, amount |-> Undefined, batch |-> <<>>,
   res |-> res, arg |-> arg]

PhysKeys == UNION {{addNamespacePrefix(h, k) : k \in KeysOf(h)} : h \in Handles}

Closed == [open |-> FALSE, expected |-> Num(0), handles |-> {}]

\* An account can start on an absent key (counted as 0) or an alive number.
Openable(s, t, key) ==
  key \in DOMAIN s =>
    /\ s[key].expires_at = <<>> \/ s[key].expires_at[1] > t
    /\ typeof(s[key].value.payload) = "number"
    /\ s[key].value.payload.t # "NaN"
    /\ s[key].value.marker = 2

Fresh(s, t, key) ==
  IF Openable(s, t, key)
    THEN [open |-> TRUE,
          expected |-> IF key \in DOMAIN s THEN s[key].value.payload ELSE Num(0),
          handles |-> {}]
    ELSE Closed

Audit(l, s, s2, t2, call) ==
  [on |-> l.on,
   acct |-> [key \in PhysKeys |->
     IF ~l.on THEN Closed
     ELSE IF /\ call.op \in {"increment", "decrement"}
             /\ call.res.success
             /\ addNamespacePrefix(call.h, call.key) = key
             /\ l.acct[key].open
       THEN [open |-> TRUE,
             expected |->
               LET a == IF call.amount = Undefined THEN Num(1) ELSE call.amount
               IN IF call.op = "increment" THEN Add(l.acct[key].expected, a)
                  ELSE Add(l.acct[key].expected, Neg(a)),
             handles |-> l.acct[key].handles \cup {call.h}]
     ELSE IF /\ l.acct[key].open
             /\ (key \in DOMAIN s) = (key \in DOMAIN s2)
             /\ key \in DOMAIN s => s[key] = s2[key]
             /\ Openable(s2, t2, key)
       THEN l.acct[key]
     ELSE Fresh(s2, t2, key)]]

(* ------------------------------- actions ------------------------------ *)

Done(o, call) ==
  /\ Fits(o.store)
  /\ store' = o.store
  /\ last' = call
  /\ ledger' = Audit(ledger, store, o.store, now, call)
  /\ UNCHANGED now

Set(h, k, v, e) ==
  LET o == set(store, now, h, k, v, e)
  IN Done(o, Call("set", h, k, Undefined, <<>>, o.res))

\* set, with the expiresAt passed kept in the record of the call.
SetWith(h, k, v, e) ==
  LET o == set(store, now, h, k, v, e)
  IN Done(o, CallArg("set", h, k, e, o.res))

\* set, with the value and the expiresAt passed kept in the record of the call.
SetEntry(h, k, v, e) ==
  LET o == set(store, now, h, k, v, e)
  IN Done(o, CallArg("set", h, k, Entry(k, v, e), o.res))

Get(h, k) ==
  LET o == get(store, now, h, k)
  IN Done(o, Call("get", h, k, Undefined, <<>>, o.res))

Delete(h, k) ==
  LET o == delete(store, h, k)
  IN Done(o, Call("delete", h, k, Undefined, <<>>, o.res))

Increment(h, k, a) ==
  LET o == increment(store, now, h, k, a)
  IN Done(o, Call("increment", h, k, a, <<>>, o.res))

Decrement(h, k, a) ==
  LET o == decrement(store, now, h, k, a)
  IN Done(o, Call("decrement", h, k, a, <<>>, o.res))

MultiSet(h, entries) ==
  LET o == multiSet(store, now, h, entries)
  IN Done(o, Call("multiSet", h, <<>>, Undefined, entries, o.res))

Rename(h, oldKey, newKey) ==
  LET o == rename(store, h, oldKey, newKey)
  IN Done(o, CallArg("rename", h, oldKey, newKey, o.res))

SetExpire(h, k, e) ==
  LET o == setExpire(store, now, h, k, e)
  IN Done(o, CallArg("setExpire", h, k, e, o.res))

Ttl(h, k) ==
  LET o == ttl(store, now, h, k)
  IN Done(o, Call("ttl", h, k, Undefined, <<>>, o.res))

Persist(h, k) ==
  LET o == persist(store, h, k)
  IN Done(o, Call("persist", h, k, Undefined, <<>>, o.res))

Keys(h, pattern) ==
  LET o == keys(store, h, pattern)
  IN Done(o, CallArg("keys", h, <<>>, [pattern |-> pattern], o.res))

Pagination(h, limit, page, pattern) ==
  LET o == pagination(store, h, limit, page, pattern)
  IN Done(o, CallArg("pagination", h, <<>>,
                     [pattern |-> pattern, limit |-> limit, page |-> page], o.res))

ExpiredRange(h, start, end, pattern) ==
  LET o == expiredRange(store, now, h, start, end, pattern)
  IN Done(o, CallArg("expiredRange", h, <<>>,
                     [pattern |-> pattern, start |-> start, end |-> end], o.res))

Count(h, pattern) ==
  LET o == count(store, h, pattern)
  IN Done(o, CallArg("count", h, <<>>, [pattern |-> pattern], o.res))

CountExpired(h, pattern) ==
  LET o == countExpired(store, now, h, pattern)
  IN Done(o, CallArg("countExpired", h, <<>>, [pattern |-> pattern], o.res))

Cleanup(h) ==
  LET o == cleanup(store, now, h)
  IN Done(o, Call("cleanup", h, <<>>, Undefined, <<>>, o.res))

Flush(h) ==
  LET o == flush(store, h)
  IN Done(o, Call("flush", h, <<>>, Undefined, <<>>, o.res))

Exists(h, k) ==
  LET o == exists(store, h, k)
  IN Done(o, Call("exists", h, k, Undefined, <<>>, o.res))

GetExpire(h, k) ==
  LET o == getExpire(store, h, k)
  IN Done(o, Call("getExpire", h, k, Undefined, <<>>, o.res))

\* A call of a method that is not async, while the engine throws.
EngineThrows(op, h) ==
  LET o == engineThrows(store)
  IN Done(o, Call(op, h, <<>>, Undefined, <<>>, o.res))

Backup(serializeThrows, writeFileRejects) ==
  LET o == backup(store, serializeThrows, writeFileRejects)
  IN Done(o, Call("backup", Root, <<>>, Undefined, <<>>, o.res))

Restore(file) ==
  LET o == restore(store, file)
  IN Done(o, CallArg("restore", Root, <<>>, file, o.res))

Execute(key, value, expires_at) ==
  LET o == execute(store, key, value, expires_at)
  IN Done(o, CallArg("execute", Root, key, value, o.res))

MultiGet(h, keyList) ==
  LET o == multiGet(store, now, h, keyList)
  IN Done(o, Call("multiGet", h, <<>>, Undefined, keyList, o.res))

MultiDelete(h, keyList) ==
  LET o == multiDelete(store, h, keyList)
  IN Done(o, Call("multiDelete", h, <<>>, Undefined, keyList, o.res))

\* persist, with the row it found kept in the record of the call.
PersistRow(h, k) ==
  LET o == persist(store, h, k)
  IN Done(o, CallArg("persist", h, k, GET(store, addNamespacePrefix(h, k)), o.res))

\* namespace(name) through handle h: the store is not touched, and the call
\* returns a handle, given here by its prefix.
Namespace(h, name) ==
  Done([store |-> store],
       CallArg("namespace", h, <<>>, name, [handle |-> namespace(h, name)]))

\* The two private functions, applied through handle h.
AddNamespacePrefix(h, k) ==
  Done([store |-> store],
       CallArg("addNamespacePrefix", h, k, <<>>, [key |-> addNamespacePrefix(h, k)]))

RemoveNamespacePrefix(h, key) ==
  Done([store |-> store],
       CallArg("removeNamespacePrefix", h, key, <<>>,
               [key |-> removeNamespacePrefix(h, key)]))

\* Date.now() moves on between two calls.
Tick ==
  /\ now < MaxNow
  /\ now' = now + 1
  /\ last' = Call("tick", Root, <<>>, Undefined, <<>>, OK(Undefined))
  /\ ledger' = Audit(ledger, store, store, now + 1, last')
  /\ UNCHANGED store

\* new MiftahDB(":memory:")
Created ==
  /\ store = <<>>
  /\ now = 1
  /\ last = Call("new", Root, <<>>, Undefined, <<>>, OK(Undefined))

Init ==
  /\ Created
  /\ ledger = [on |-> FALSE, acct |-> [key \in PhysKeys |-> Closed]]

\* The same, with the ledger kept.
InitLedger ==
  /\ Created
  /\ ledger = [on |-> TRUE, acct |-> [key \in PhysKeys |-> Fresh(<<>>, 1, key)]]

\* The store operations.
Next ==
  \/ \E h \in Handles : \E k \in KeysOf(h) : \E v \in SetValues : \E e \in ExpireInputs :
       Set(h, k, v, e)
  \/ \E h \in Handles : \E k \in KeysOf(h) : Get(h, k)
  \/ \E h \in Handles : \E k \in KeysOf(h) : Delete(h, k)
  \/ \E h \in Handles : \E b \in Batches(h) : MultiSet(h, b)
  \/ Tick

Spec == Init /\ [][Next]_vars

\* The numeric operations on finite amounts.
NextNumeric ==
  \/ \E h \in Handles : \E k \in KeysOf(h) : \E v \in NumSetValues :
       \E e \in NumExpireInputs : Set(h, k, v, e)
  \/ \E h \in Handles : \E k \in KeysOf(h) : Get(h, k)
  \/ \E h \in Handles : \E k \in KeysOf(h) : \E a \in NumAmounts : Increment(h, k, a)
  \/ \E h \in Handles : \E k \in KeysOf(h) : \E a \in NumAmounts : Decrement(h, k, a)
  \/ Tick

SpecNumeric == Init /\ [][NextNumeric]_vars

\* The numeric operations on infinite amounts.
NextInfinity ==
  \/ \E h \in Handles : \E k \in KeysOf(h) : \E v \in InfSetValues :
       \E e \in InfExpireInputs : Set(h, k, v, e)
  \/ \E h \in Handles : \E k \in KeysOf(h) : Get(h, k)
  \/ \E h \in Handles : \E k \in KeysOf(h) : \E a \in InfAmounts : Increment(h, k, a)
  \/ \E h \in Handles : \E k \in KeysOf(h) : \E a \in InfAmounts : Decrement(h, k, a)
  \/ Tick

SpecInfinity == Init /\ [][NextInfinity]_vars

\* The numeric operations through both handles, with the ledger kept.
NextLedger ==
  \/ \E h \in Handles : \E k \in KeysOf(h) : \E v \in LedgerSetValues :
       \E e \in LedgerExpireInputs : Set(h, k, v, e)
  \/ \E h \in Handles : \E k \in KeysOf(h) : Get(h, k)
  \/ \E h \in Handles : \E k \in KeysOf(h) : Delete(h, k)
  \/ \E h \in Handles : \E k \in KeysOf(h) : \E a \in LedgerAmounts : Increment(h, k, a)
  \/ \E h \in Handles : \E k \in KeysOf(h) : \E a \in LedgerAmounts : Decrement(h, k, a)
  \/ Tick

SpecLedger == InitLedger /\ [][NextLedger]_vars

\* The single-key operations through the root and a namespace handle.
NextNamespace ==
  \/ \E h \in Handles : \E k \in NamespaceKeysOf(h) : \E v \in NamespaceValues :
       \E e \in NamespaceExpireInputs : Set(h, k, v, e)
  \/ \E h \in Handles : \E k \in NamespaceKeysOf(h) : Get(h, k)
  \/ \E h \in Handles : \E k \in NamespaceKeysOf(h) : Delete(h, k)
  \/ \E h \in Handles : \E k1 \in NamespaceKeysOf(h) : \E k2 \in NamespaceKeysOf(h) :
       Rename(h, k1, k2)
  \/ \E h \in Handles : \E k \in NamespaceKeysOf(h) : \E e \in NamespaceExpireInputs :
       SetExpire(h, k, e)
  \/ \E h \in Handles : \E k \in NamespaceKeysOf(h) : Persist(h, k)
  \/ \E h \in Handles : \E k \in NamespaceKeysOf(h) : Increment(h, k, Undefined)
  \/ \E h \in Handles : \E k \in NamespaceKeysOf(h) : Decrement(h, k, Undefined)
  \/ Tick

SpecNamespace == Init /\ [][NextNamespace]_vars

\* The enumerations, cleanup and flush through three handles.
NextScope ==
  \/ \E h \in ScopeHandles : \E k \in ScopeKeys : \E v \in ScopeValues :
       \E e \in ScopeExpireInputs : Set(h, k, v, e)
  \/ \E h \in ScopeHandles : \E pattern \in Patterns : Keys(h, pattern)
  \/ \E h \in ScopeHandles : \E limit \in Limits : \E page \in Pages :
       \E pattern \in Patterns : Pagination(h, limit, page, pattern)
  \/ \E h \in ScopeHandles : \E start \in RangeBounds : \E end \in RangeBounds :
       \E pattern \in Patterns : ExpiredRange(h, start, end, pattern)
  \/ \E h \in ScopeHandles : \E pattern \in Patterns : Count(h, pattern)
  \/ \E h \in ScopeHandles : \E pattern \in Patterns : CountExpired(h, pattern)
  \/ \E h \in ScopeHandles : Cleanup(h)
  \/ \E h \in ScopeHandles : Flush(h)
  \/ Tick

SpecScope == Init /\ [][NextScope]_vars

\* rename, with set before it and get after it.
NextRename ==
  \/ \E h \in Handles : \E k \in NestedKeysOf(h) : \E v \in RenameValues :
       \E e \in RenameExpireInputs : Set(h, k, v, e)
  \/ \E h \in Handles : \E k \in NestedKeysOf(h) : Get(h, k)
  \/ \E h \in Handles : \E k1 \in NestedKeysOf(h) : \E k2 \in NestedKeysOf(h) :
       Rename(h, k1, k2)
  \/ Tick

SpecRename == Init /\ [][NextRename]_vars

\* The expirations: set and setExpire with every form of expiresAt, and the
\* reads get and ttl.
NextExpire ==
  \/ \E h \in Handles : \E k \in KeysOf(h) : \E v \in ExpireValues :
       \E e \in ExpireInputs : SetWith(h, k, v, e)
  \/ \E h \in Handles : \E k \in KeysOf(h) : \E e \in ExpireInputs : SetExpire(h, k, e)
  \/ \E h \in Handles : \E k \in KeysOf(h) : Get(h, k)
  \/ \E h \in Handles : \E k \in KeysOf(h) : Ttl(h, k)
  \/ Tick

SpecExpire == Init /\ [][NextExpire]_vars

\* The reads exists and getExpire, with set before them.
NextRead ==
  \/ \E h \in Handles : \E k \in KeysOf(h) : \E v \in ReadValues :
       \E e \in ReadExpireInputs : Set(h, k, v, e)
  \/ \E h \in Handles : \E k \in KeysOf(h) : Exists(h, k)
  \/ \E h \in Handles : \E k \in KeysOf(h) : GetExpire(h, k)
  \/ Tick

SpecRead == Init /\ [][NextRead]_vars

\* set and get of every kind of value, through the root and a namespace.
NextRoundTrip ==
  \/ \E h \in Handles : \E k \in NamespaceKeysOf(h) : \E v \in RoundTripValues :
       \E e \in RoundTripExpireInputs : SetEntry(h, k, v, e)
  \/ \E h \in Handles : \E k \in NamespaceKeysOf(h) : Get(h, k)
  \/ Tick

SpecRoundTrip == Init /\ [][NextRoundTrip]_vars

\* Every method with the engine throwing, backup and restore with and
\* without a failure, and set and get to fill the store.
NextResult ==
  \/ \E h \in Handles : \E k \in KeysOf(h) : \E v \in ResultValues :
       \E e \in ResultExpireInputs : Set(h, k, v, e)
  \/ \E h \in Handles : \E k \in KeysOf(h) : Get(h, k)
  \/ \E op \in SyncMethods : \E h \in Handles : EngineThrows(op, h)
  \/ \E serializeThrows, writeFileRejects \in BOOLEAN :
       Backup(serializeThrows, writeFileRejects)
  \/ \E file \in RestoreFiles(store) : Restore(file)
  \/ Tick

SpecResult == Init /\ [][NextResult]_vars

\* Rows written by set and rows written past the codec by execute, and get.
NextDecode ==
  \/ \E h \in Handles : \E k \in KeysOf(h) : \E v \in DecodeValues :
       \E e \in DecodeExpireInputs : Set(h, k, v, e)
  \/ \E key \in PhysKeys : \E value \in RawBuffers :
       \E expires_at \in RawExpirations : Execute(key, value, expires_at)
  \/ \E h \in Handles : \E k \in KeysOf(h) : Get(h, k)
  \/ Tick

SpecDecode == Init /\ [][NextDecode]_vars

\* multiGet and multiDelete on lists of keys, through the root and a
\* namespace, on rows with and without an expiration.
NextBatch ==
  \/ \E h \in Handles : \E k \in NestedKeysOf(h) : \E v \in BatchValues :
       \E e \in BatchExpireInputs : Set(h, k, v, e)
  \/ \E h \in Handles : \E keyList \in KeyLists(h) : MultiGet(h, keyList)
  \/ \E h \in Handles : \E keyList \in KeyLists(h) : MultiDelete(h, keyList)
  \/ Tick

SpecBatch == Init /\ [][NextBatch]_vars

\* expiredRange with numbers as bounds.
NextRange ==
  \/ \E h \in RangeHandles : \E k \in ScopeKeys : \E v \in ScopeValues :
       \E e \in RangeExpireInputs : Set(h, k, v, e)
  \/ \E h \in RangeHandles : \E start \in NumericBounds : \E end \in NumericBounds :
       ExpiredRange(h, start, end, <<"%">>)
  \/ Tick

SpecRange == Init /\ [][NextRange]_vars

\* persist on rows with and without an expiration, expired or not.
NextPersist ==
  \/ \E h \in Handles : \E k \in KeysOf(h) : \E v \in PersistValues :
       \E e \in PersistExpireInputs : Set(h, k, v, e)
  \/ \E h \in Handles : \E k \in KeysOf(h) : PersistRow(h, k)
  \/ \E h \in Handles : \E k \in KeysOf(h) : Get(h, k)
  \/ Tick

SpecPersist == Init /\ [][NextPersist]_vars

\* keys and pagination over the rows set and deleted before.
NextPages ==
  \/ \E h \in Handles : \E k \in NestedKeysOf(h) : \E v \in PageValues :
       \E e \in PageExpireInputs : Set(h, k, v, e)
  \/ \E h \in Handles : \E k \in NestedKeysOf(h) : Delete(h, k)
  \/ \E h \in Handles : \E pattern \in Patterns : Keys(h, pattern)
  \/ \E h \in Handles : \E limit \in Limits : \E page \in PageNumbers :
       \E pattern \in Patterns : Pagination(h, limit, page, pattern)
  \/ Tick

SpecPages == Init /\ [][NextPages]_vars

\* Namespaces made from the root and from a namespace, and set and get
\* through the root, the namespace and the nested namespace.
NextNesting ==
  \/ \E h \in NestingHandles \ {NestedHandle} : \E name \in NestingNames :
       Namespace(h, name)
  \/ \E h \in NestingHandles : \E k \in NestingKeysOf(h) : \E v \in NestingValues :
       \E e \in NestingExpireInputs : SetEntry(h, k, v, e)
  \/ \E h \in NestingHandles : \E k \in NestingKeysOf(h) : Get(h, k)
  \/ Tick

SpecNesting == Init /\ [][NextNesting]_vars

\* persist and setExpire on rows that are expired and not yet purged.
NextAbsent ==
  \/ \E h \in Handles : \E k \in KeysOf(h) : \E v \in PersistValues :
       \E e \in PersistExpireInputs : Set(h, k, v, e)
  \/ \E h \in Handles : \E k \in KeysOf(h) : PersistRow(h, k)
  \/ \E h \in Handles : \E k \in KeysOf(h) : \E e \in PersistExpireInputs \ {NoExpire} :
       SetExpire(h, k, e)
  \/ \E h \in Handles : \E k \in KeysOf(h) : Get(h, k)
  \/ Tick

SpecAbsent == Init /\ [][NextAbsent]_vars

\* The reads get, ttl and multiGet through the root and a namespace, with
\* the rows of the nested namespace in the store.
NextReads ==
  \/ \E h \in Handles : \E k \in NamespaceKeysOf(h) : \E v \in ReadsValues :
       \E e \in ReadsExpireInputs : Set(h, k, v, e)
  \/ \E h \in Handles : \E k \in NamespaceKeysOf(h) : Get(h, k)
  \/ \E h \in Handles : \E k \in NamespaceKeysOf(h) : Ttl(h, k)
  \/ \E h \in Handles : \E keyList \in KeyLists(h) : MultiGet(h, keyList)
  \/ Tick

SpecReads == Init /\ [][NextReads]_vars

\* The prefix functions on every key of the bound.
NextPrefix ==
  \/ \E h \in PrefixHandles : \E k \in PrefixKeys : AddNamespacePrefix(h, k)
  \/ \E h \in PrefixHandles : \E key \in PrefixKeys : RemoveNamespacePrefix(h, key)

SpecPrefix == Init /\ [][NextPrefix]_vars

\* multiGet on keys that are numerals, in every order.
NextOrder ==
  \/ \E h \in Handles : \E k \in OrderKeys : \E v \in OrderValues :
       \E e \in OrderExpireInputs : Set(h, k, v, e)
  \/ \E h \in Handles : \E keyList \in OrderKeyLists : MultiGet(h, keyList)

SpecOrder == Init /\ [][NextOrder]_vars

(* ------------------------- vocabulary of the claims ------------------- *)

\* The physical key of the row a call works on.
PhysicalKey(call) == addNamespacePrefix(call.h, call.key)

HasRow(s, key) == key \in DOMAIN s

\* expires_at is non-null and <= t
Expired(row, t) == row.expires_at # <<>> /\ row.expires_at[1] <= t

\* expires_at is null or > t
Alive(row, t) == ~Expired(row, t)

\* The value a row holds is a number other than NaN.
HoldsNumber(row) ==
  typeof(decodeValue(row.value)) = "number" /\ ~isNaN(decodeValue(row.value))

IsNumericCall(call) == call.op \in {"increment", "decrement"}

\* The amount a numeric call works with: 1 when none is passed.
AmountOf(call) == IF call.amount = Undefined THEN Num(1) ELSE call.amount

\* current + amount for increment, current - amount for decrement
Applied(call, current) ==
  IF call.op = "increment" THEN Add(current, AmountOf(call))
  ELSE Sub(current, AmountOf(call))

\* The row of key is the same in s and s2, or absent from both.
SameRow(s, s2, key) ==
  /\ (key \in DOMAIN s) = (key \in DOMAIN s2)
  /\ key \in DOMAIN s => s[key] = s2[key]

IsSingleKeyCall(call) ==
  call.op \in {"set", "get", "delete", "rename", "setExpire", "persist",
               "increment", "decrement"}

\* The physical rows a single-key call is about: the row of its key and,
\* for rename, the row of the new key.
RowsOf(call) ==
  {PhysicalKey(call)} \cup
  (IF call.op = "rename" THEN {addNamespacePrefix(call.h, call.arg)} ELSE {})

IsEnumeration(call) ==
  call.op \in {"keys", "pagination", "expiredRange", "count", "countExpired"}

\* The physical keys in the scope of handle h that match a user pattern:
\* p + ":" + s with s matching the pattern (at the root, s itself).
InScope(s, h, pattern) ==
  {key \in DOMAIN s :
     IF h = Root THEN LIKE(key, pattern)
     ELSE /\ startsWith(key, h \o <<":">>)
          /\ LIKE(slice(key, Len(h) + 1), pattern)}

\* The keys of a set of physical keys, as the callers of handle h name them.
Logical(h, S) == {IF h = Root THEN key ELSE slice(key, Len(h) + 1) : key \in S}

\* The keys a Result carries.
Returned(res) == {res.data.list[i] : i \in 1..Len(res.data.list)}

(* -------------------------------- claims ------------------------------ *)

\* C1: whenever get(k) is called through a handle h while the row of (h, k)
\* has a non-null expires_at <= now (0 included), get returns a failure.
C1_GetNeverReturnsExpired ==
  [][(/\ last'.op = "get"
      /\ HasRow(store, PhysicalKey(last'))
      /\ Expired(store[PhysicalKey(last')], now))
     => ~last'.res.success]_vars

\* C2: when get(k) through a handle h (root or namespace) finds the row of
\* (h, k) expired and returns its Expired failure, that row is gone from the
\* store afterwards and the store holds one row less.
C2_ExpiredGetPurgesRow ==
  [][(/\ last'.op = "get"
      /\ HasRow(store, PhysicalKey(last'))
      /\ Expired(store[PhysicalKey(last')], now)
      /\ last'.res = ERR(Error("Key expired, cannot get.", <<>>)))
     => /\ ~HasRow(store', PhysicalKey(last'))
        /\ Cardinality(DOMAIN store') = Cardinality(DOMAIN store) - 1]_vars

\* Applying set fails for some entry of the batch.
SomeSetFails(s, t, call) ==
  \E i \in 1..Len(call.batch) :
    ~set(s, t, call.h, call.batch[i].key, call.batch[i].value,
         call.batch[i].expiresAt).res.success

\* C3: a multiSet in which the set of some entry fails leaves the store as
\* it was before the call.
C3_MultiSetAllOrNothing ==
  [][(last'.op = "multiSet" /\ SomeSetFails(store, now, last'))
     => store' = store]_vars

\* C4: multiSet returns a failure Result exactly when the set of some entry
\* of the batch fails.
C4_MultiSetReportsFailure ==
  [][last'.op = "multiSet"
     => (last'.res.success <=> ~SomeSetFails(store, now, last'))]_vars

\* C5: increment/decrement with a valid amount a on a key that has no row,
\* or whose row has a non-null expires_at <= now, returns and stores 0 + a,
\* resp. 0 - a, with expires_at null, and a following get returns it.
C5_AbsentOrExpiredCountsAsZero ==
  [][(/\ IsNumericCall(last')
      /\ validAmount(AmountOf(last'))
      /\ (HasRow(store, PhysicalKey(last'))
            => Expired(store[PhysicalKey(last')], now)))
     => /\ last'.res = OK(Applied(last', Num(0)))
        /\ HasRow(store', PhysicalKey(last'))
        /\ decodeValue(store'[PhysicalKey(last')].value) = Applied(last', Num(0))
        /\ store'[PhysicalKey(last')].expires_at = <<>>
        /\ get(store', now, last'.h, last'.key).res = OK(Applied(last', Num(0)))]_vars

\* C6: increment/decrement with a valid amount a on an alive row (expires_at
\* null or > now) that holds a number c returns c + a, resp. c - a, stores
\* it in that row with expires_at as it was before the call and every other
\* row as it was, and a following get returns the new value.
C6_AliveNumberIsModifiedInPlace ==
  [][(/\ IsNumericCall(last')
      /\ validAmount(AmountOf(last'))
      /\ HasRow(store, PhysicalKey(last'))
      /\ Alive(store[PhysicalKey(last')], now)
      /\ HoldsNumber(store[PhysicalKey(last')]))
     => /\ last'.res =
             OK(Applied(last', decodeValue(store[PhysicalKey(last')].value)))
        /\ DOMAIN store' = DOMAIN store
        /\ \A key \in DOMAIN store :
             /\ store'[key].expires_at = store[key].expires_at
             /\ decodeValue(store'[key].value) =
                  IF key = PhysicalKey(last')
                    THEN Applied(last', decodeValue(store[key].value))
                    ELSE decodeValue(store[key].value)
        /\ get(store', now, last'.h, last'.key).res = last'.res]_vars

\* An alive row with an expiration, holding 1, was incremented by the
\* default amount through the namespace handle.
C6_Witness ==
  /\ last.op = "increment"
  /\ last.h # Root
  /\ last.amount = Undefined
  /\ last.res = OK(Num(2))
  /\ now < MaxNow
  /\ HasRow(store, PhysicalKey(last))
  /\ store[PhysicalKey(last)].expires_at = <<MaxNow>>

\* C7: increment/decrement with a valid amount on an alive row whose value
\* is not a number returns a failure whose message names the key as the
\* caller passed it, and leaves every row as it was.
C7_NonNumberFailsWithoutEffect ==
  [][(/\ IsNumericCall(last')
      /\ validAmount(AmountOf(last'))
      /\ HasRow(store, PhysicalKey(last'))
      /\ Alive(store[PhysicalKey(last')], now)
      /\ ~HoldsNumber(store[PhysicalKey(last')]))
     => /\ last'.res = ERR(Error("Value for key is not a number.", last'.key))
        /\ store' = store]_vars

\* A numeric call through the namespace handle failed on a row that holds
\* no number, while the store held a second row.
C7_Witness ==
  /\ IsNumericCall(last)
  /\ last.h # Root
  /\ last.res = ERR(Error("Value for key is not a number.", last.key))
  /\ HasRow(store, PhysicalKey(last))
  /\ ~HoldsNumber(store[PhysicalKey(last)])
  /\ Cardinality(DOMAIN store) = 2

\* C8: over any run of completed increment/decrement calls on one physical
\* key, through whichever handles, that starts from an absent key or an
\* alive number and is broken by no other write and no expiry, the row holds
\* the start value plus the increments minus the decrements, and the call
\* made last returned the value the row holds.
C8_IncrementsAddUp ==
  \A key \in PhysKeys :
    (ledger.on /\ ledger.acct[key].open) =>
      /\ IF HasRow(store, key)
           THEN /\ Alive(store[key], now)
                /\ decodeValue(store[key].value) = ledger.acct[key].expected
           ELSE ledger.acct[key] = Fresh(<<>>, now, key)
      /\ (IsNumericCall(last) /\ last.res.success /\ PhysicalKey(last) = key)
           => /\ HasRow(store, key)
              /\ last.res.data = decodeValue(store[key].value)

\* A run on one row that came through both handles, ending in a decrement,
\* while the store holds a second row.
C8_Witness ==
  \E key \in PhysKeys :
    /\ ledger.on
    /\ ledger.acct[key].open
    /\ ledger.acct[key].handles = Handles
    /\ last.op = "decrement"
    /\ PhysicalKey(last) = key
    /\ last.res = OK(Num(1))
    /\ Cardinality(DOMAIN store) = 2

\* C9: increment/decrement with an amount that is not a number, or is NaN,
\* returns the failure '... amount must be a valid number.' and leaves every
\* row as it was, whatever the row of the key holds.
C9_InvalidAmountIsRejectedFirst ==
  [][(/\ IsNumericCall(last')
      /\ (typeof(last'.amount) \notin {"number", "undefined"} \/ last'.amount = NaN))
     => /\ last'.res =
             ERR(Error(IF last'.op = "increment"
                         THEN "Increment amount must be a valid number."
                         ELSE "Decrement amount must be a valid number.",
                       <<>>))
        /\ store' = store]_vars

\* A decrement by a string was rejected for its amount although the row of
\* the key holds no number either.
C9_Witness ==
  /\ last.op = "decrement"
  /\ last.amount = Str
  /\ last.res = ERR(Error("Decrement amount must be a valid number.", <<>>))
  /\ HasRow(store, PhysicalKey(last))
  /\ ~HoldsNumber(store[PhysicalKey(last)])

\* C10: increment/decrement with the amount +Infinity or -Infinity returns a
\* failure and leaves every row as it was.
C10_InfiniteAmountIsRejected ==
  [][(IsNumericCall(last') /\ last'.amount \in {PosInf, NegInf})
     => (~last'.res.success /\ store' = store)]_vars

\* C11: a single-key operation (set, get, delete, rename, setExpire, persist,
\* increment, decrement) through a handle with prefix p on key k changes no
\* row but p:k (for rename, p:k and p:newKey); through a namespace that
\* leaves the root row k as it was, through the root it leaves p:k as it
\* was; and after a set through a namespace handle that stored an alive
\* entry, root.get(p:k) returns the value set.
C11_NamespaceIsolation ==
  [][IsSingleKeyCall(last')
     => /\ \A key \in (DOMAIN store \cup DOMAIN store') \ RowsOf(last') :
             SameRow(store, store', key)
        /\ (/\ last'.op = "set"
            /\ last'.h # Root
            /\ last'.res.success
            /\ Alive(store'[PhysicalKey(last')], now))
           => get(store', now, Root, PhysicalKey(last')).res =
                get(store', now, last'.h, last'.key).res]_vars

\* C12: through every handle h, keys, pagination, count, countExpired and
\* expiredRange consider exactly the rows in the scope of h that match the
\* user pattern: keys returns their keys with the prefix stripped (and fails
\* when there is none), pagination and expiredRange return only such keys,
\* count returns their number and countExpired the number of those with a
\* non-null expires_at <= now.
C12_EnumerationIsScoped ==
  [][IsEnumeration(last')
     => LET scope == InScope(store, last'.h, last'.arg.pattern)
            res == last'.res
        IN /\ last'.op = "keys" =>
                /\ res.success <=> scope # {}
                /\ res.success => Returned(res) = Logical(last'.h, scope)
           /\ last'.op \in {"pagination", "expiredRange"} =>
                (res.success => Returned(res) \subseteq Logical(last'.h, scope))
           /\ last'.op = "count" => res = OK(Num(Cardinality(scope)))
           /\ last'.op = "countExpired" =>
                res = OK(Num(Cardinality({key \in scope : Expired(store[key], now)})))]_vars

NewPhysicalKey(call) == addNamespacePrefix(call.h, call.arg)

\* C16: rename(oldKey, newKey) when both keys have a row: afterwards the row
\* of newKey carries the value and expires_at that oldKey had, oldKey has no
\* row, and (the entry being alive) get(newKey) returns oldKey's value.
C16_RenameOverwritesDestination ==
  [][(/\ last'.op = "rename"
      /\ last'.key # last'.arg
      /\ HasRow(store, PhysicalKey(last'))
      /\ HasRow(store, NewPhysicalKey(last')))
     => /\ ~HasRow(store', PhysicalKey(last'))
        /\ HasRow(store', NewPhysicalKey(last'))
        /\ store'[NewPhysicalKey(last')] = store[PhysicalKey(last')]
        /\ Alive(store[PhysicalKey(last')], now)
             => get(store', now, last'.h, last'.arg).res =
                  OK(decodeValue(store[PhysicalKey(last')].value))]_vars

\* C17: rename(oldKey, newKey) when oldKey has a row and newKey has none:
\* afterwards the row of newKey carries exactly the value and expires_at
\* that oldKey had, oldKey has no row, the number of rows is the same and
\* every other row is as it was.
C17_RenameMovesEntry ==
  [][(/\ last'.op = "rename"
      /\ HasRow(store, PhysicalKey(last'))
      /\ ~HasRow(store, NewPhysicalKey(last')))
     => /\ last'.res.success
        /\ ~HasRow(store', PhysicalKey(last'))
        /\ HasRow(store', NewPhysicalKey(last'))
        /\ store'[NewPhysicalKey(last')] = store[PhysicalKey(last')]
        /\ Cardinality(DOMAIN store') = Cardinality(DOMAIN store)
        /\ \A key \in DOMAIN store \ {PhysicalKey(last')} :
             SameRow(store, store', key)]_vars

\* A rename through the namespace handle moved a string with an expiration
\* from "k" to "a:k" (the rows a:k and a:a:k) while the root row k exists.
C17_Witness ==
  /\ last.op = "rename"
  /\ last.h # Root
  /\ last.key = <<"k">>
  /\ last.arg = <<"a", ":", "k">>
  /\ ~HasRow(store, PhysicalKey(last))
  /\ HasRow(store, NewPhysicalKey(last))
  /\ store[NewPhysicalKey(last)] = Row(encodeValue(Str).buf, <<MaxNow>>)
  /\ HasRow(store, <<"k">>)

\* C18: set(k, v, 0), the number 0 as expiresAt, stores an entry with an
\* expiration, and the get(k) that follows fails with 'Key expired'.
C18_ZeroTtlExpiresImmediately ==
  [][(last'.op = "set" /\ last'.arg = Millis(0) /\ last'.res.success)
     => /\ store'[PhysicalKey(last')].expires_at # <<>>
        /\ get(store', now, last'.h, last'.key).res =
             ERR(Error("Key expired, cannot get.", <<>>))]_vars

\* C19: set(k, v, e), and setExpire(k, e) on a key that has a row, store
\* expires_at = e.getTime() when e is a Date and expires_at = now + e when e
\* is a non-zero number; when e is a negative number the get(k) that follows
\* fails with 'Key expired'.
C19_ExpirationInputIsNormalized ==
  [][(/\ last'.op \in {"set", "setExpire"}
      /\ last'.arg.k \in {"date", "number"}
      /\ last'.arg # Millis(0)
      /\ last'.op = "setExpire" => HasRow(store, PhysicalKey(last')))
     => /\ last'.res.success
        /\ HasRow(store', PhysicalKey(last'))
        /\ store'[PhysicalKey(last')].expires_at =
             IF last'.arg.k = "date" THEN <<last'.arg.n>> ELSE <<now + last'.arg.n>>
        /\ (last'.arg.k = "number" /\ last'.arg.n < 0)
             => get(store', now, last'.h, last'.key).res =
                  ERR(Error("Key expired, cannot get.", <<>>))]_vars

\* C20: ttl(k) fails with 'Key not found' when k has no row; returns null
\* when the row has no expiration; returns expires_at - now, a number > 0,
\* when expires_at > now; and fails with 'Key expired', the row being
\* deleted, when the row's non-null expires_at <= now.  In the first three
\* cases the store is as it was.
C20_TtlHasFourOutcomes ==
  [][last'.op = "ttl"
     => LET key == PhysicalKey(last')
        IN IF ~HasRow(store, key)
             THEN /\ last'.res = ERR(Error("Key not found, cannot ttl.", <<>>))
                  /\ store' = store
           ELSE IF store[key].expires_at = <<>>
             THEN last'.res = OK(JsNull) /\ store' = store
           ELSE IF store[key].expires_at[1] > now
             THEN /\ last'.res = OK(Num(store[key].expires_at[1] - now))
                  /\ last'.res.data.n > 0
                  /\ store' = store
           ELSE /\ last'.res = ERR(Error("Key expired, cannot ttl.", <<>>))
                /\ ~HasRow(store', key)
                /\ \A other \in DOMAIN store \ {key} : SameRow(store, store', other)]_vars

\* C21: exists(k) through a handle h while the row of (h, k) has a non-null
\* expires_at <= now returns the failure 'Key not found ...' and the row is
\* gone afterwards.
C21_ExistsAppliesLazyExpiry ==
  [][(/\ last'.op = "exists"
      /\ HasRow(store, PhysicalKey(last'))
      /\ Expired(store[PhysicalKey(last')], now))
     => /\ last'.res = ERR(Error("Key not found, cannot check exists.", <<>>))
        /\ ~HasRow(store', PhysicalKey(last'))]_vars

\* C22: getExpire(k) fails with 'Key not found' when k has no row, with
\* 'Key has no expiration' when the row's expires_at is null, with 'Key
\* expired', the row being deleted, when expires_at <= now, and returns the
\* timestamp when expires_at > now.
C22_GetExpireAppliesLazyExpiry ==
  [][last'.op = "getExpire"
     => LET key == PhysicalKey(last')
        IN IF ~HasRow(store, key)
             THEN /\ last'.res = ERR(Error("Key not found, cannot getExpire.", <<>>))
                  /\ store' = store
           ELSE IF store[key].expires_at = <<>>
             THEN /\ last'.res =
                       ERR(Error("Key has no expiration, cannot getExpire.", <<>>))
                  /\ store' = store
           ELSE IF Expired(store[key], now)
             THEN /\ last'.res = ERR(Error("Key expired, cannot getExpire.", <<>>))
                  /\ ~HasRow(store', key)
           ELSE /\ last'.res = OK(DateValue(store[key].expires_at[1]))
                /\ store' = store]_vars

\* Two values are observably equal: the same value, or byte blobs of the
\* same bytes (a Buffer comes back as a Uint8Array view).
SameValue(a, b) ==
  \/ a = b
  \/ /\ a.t \in {"Uint8Array", "Buffer"}
     /\ b.t \in {"Uint8Array", "Buffer"}
     /\ a.n = b.n

\* C23: a set(k, v, e) leaves one row under the physical key of k, whose
\* expiration is the one just passed (none when no expiresAt is passed) and
\* whose value get(k) returns, equal to v, while the row is alive; a get on
\* an alive row returns the value the row holds; and a row that is alive
\* stays as it is in every step that is not a set of its own key.
C23_SetGetRoundTrip ==
  [][/\ last'.op = "set"
          => /\ last'.res.success
             /\ HasRow(store', PhysicalKey(last'))
             /\ store'[PhysicalKey(last')].expires_at =
                  expiresAtMs(last'.arg.expiresAt, now)
             /\ Alive(store'[PhysicalKey(last')], now)
                  => LET o == get(store', now, last'.h, last'.key)
                     IN /\ o.res.success
                        /\ SameValue(o.res.data, last'.arg.value)
                        /\ o.store = store'
     /\ (last'.op = "get" /\ HasRow(store, PhysicalKey(last'))
           /\ Alive(store[PhysicalKey(last')], now))
          => last'.res = OK(decodeValue(store[PhysicalKey(last')].value))
     /\ \A key \in DOMAIN store :
          (/\ Alive(store[key], now')
           /\ ~(last'.op = "set" /\ PhysicalKey(last') = key))
          => (HasRow(store', key) /\ store'[key] = store[key])]_vars

\* {success: true, data} or {success: false, error}
IsResult(r) ==
  /\ DOMAIN r = {"success", "data", "error"}
  /\ r.success \in BOOLEAN
  /\ r.success => r.error = NoError

\* C24: every call returns a Result, also when the engine throws, and the
\* promise backup and restore return is fulfilled with a Result, never
\* rejected.
C24_UniformResultChannel ==
  IF last.op \in {"backup", "restore"}
    THEN last.res.promise = "fulfilled" /\ IsResult(last.res.value)
    ELSE IsResult(last.res)

\* The stored bytes start with a marker the codec does not know, or their
\* msgpack payload cannot be read.
Undecodable(buffer) ==
  \/ buffer.marker \notin {1, 2, 3}
  \/ buffer.marker = 2 /\ buffer.payload = Malformed

\* C25: a get(k) on an alive row whose stored bytes cannot be decoded
\* returns a failure Result.
C25_DecodeFailureIsSurfaced ==
  [][(/\ last'.op = "get"
      /\ HasRow(store, PhysicalKey(last'))
      /\ Alive(store[PhysicalKey(last')], now)
      /\ Undecodable(store[PhysicalKey(last')].value))
     => ~last'.res.success]_vars

\* The physical keys a call with a list of keys names.
Listed(call) ==
  {addNamespacePrefix(call.h, call.batch[i]) : i \in 1..Len(call.batch)}

\* The listed keys that have a row in s which is alive at t.
FoundAlive(call, s, t) == {key \in Listed(call) : HasRow(s, key) /\ Alive(s[key], t)}

\* C26: multiGet on a non-empty list succeeds exactly when every listed key
\* has a row that is alive.
C26_MultiGetFailsIfAnyMissing ==
  [][(last'.op = "multiGet" /\ last'.batch # <<>>)
     => (last'.res.success <=> FoundAlive(last', store, now) = Listed(last'))]_vars

\* The value get returns for the row of key.
ValueOf(s, key) == decodeValue(s[key].value)

\* How many times each value occurs in a list of values.
Occurrences(list) ==
  [v \in {list[i] : i \in 1..Len(list)} |->
     Cardinality({i \in 1..Len(list) : list[i] = v})]

\* How many of the keys in S hold each value.
Holdings(s, S) ==
  [v \in {ValueOf(s, key) : key \in S} |->
     Cardinality({key \in S : ValueOf(s, key) = v})]

\* C27: multiGet on a non-empty list fails with 'No keys found' when no
\* listed key has an alive row, and otherwise succeeds with the values of
\* the listed keys that have one, one value for each such key; the listed
\* rows that are expired are gone afterwards.
C27_MultiGetCollectsFound ==
  [][(last'.op = "multiGet" /\ last'.batch # <<>>)
     => LET found == FoundAlive(last', store, now)
        IN /\ IF found = {}
                THEN last'.res = ERR(Error("No keys found, cannot multiGet.", <<>>))
                ELSE /\ last'.res.success
                     /\ Occurrences(last'.res.data.list) = Holdings(store, found)
           /\ \A key \in Listed(last') \ found : ~HasRow(store', key)]_vars

\* C28: multiDelete on a non-empty list removes the row of every listed key,
\* leaves every other row as it is, and returns the number of rows removed:
\* the number of distinct listed keys that had a row.
C28_MultiDeleteCountsRemovedRows ==
  [][(last'.op = "multiDelete" /\ last'.batch # <<>>)
     => /\ last'.res = OK(Num(Cardinality(Listed(last') \cap DOMAIN store)))
        /\ DOMAIN store' = DOMAIN store \ Listed(last')
        /\ \A key \in DOMAIN store' : store'[key] = store[key]]_vars

\* A multiDelete of two keys through the namespace removed one row, and a
\* row it did not list is still there.
C28_Witness ==
  /\ last.op = "multiDelete"
  /\ last.h = <<"a">>
  /\ Len(last.batch) = 2
  /\ last.res = OK(Num(1))
  /\ HasRow(store, <<"k">>)

\* C29: multiGet and multiDelete on an empty list fail with 'No keys
\* provided' and leave the store as it is.
C29_EmptyKeyListIsAnError ==
  [][(last'.op \in {"multiGet", "multiDelete"} /\ last'.batch = <<>>)
     => /\ last'.res \in
             {ERR(Error("No keys provided, cannot multiGet.", <<>>)),
              ERR(Error("No keys provided, cannot multiDelete.", <<>>))}
        /\ (last'.res.error.message = "No keys provided, cannot multiGet.")
             <=> last'.op = "multiGet"
        /\ store' = store]_vars

\* A multiGet of no keys failed on a store that holds a row.
C29_Witness ==
  /\ last.op = "multiGet"
  /\ last.batch = <<>>
  /\ ~last.res.success
  /\ store # <<>>

\* The rows in the scope of the call that match its pattern and whose
\* expires_at lies between its two Date bounds, both included.
InRange(s, call) ==
  {key \in InScope(s, call.h, call.arg.pattern) :
     /\ s[key].expires_at # <<>>
     /\ call.arg.start.n <= s[key].expires_at[1]
     /\ s[key].expires_at[1] <= call.arg.end.n}

\* C30: expiredRange(start, end) with Date bounds returns the keys of
\* exactly the rows in scope whose expires_at is in [start, end], expired
\* or not, fails with 'No keys found' when there is none, and leaves the
\* store as it is.
C30_ExpiredRangeIsInclusive ==
  [][(last'.op = "expiredRange"
        /\ last'.arg.start.k = "date" /\ last'.arg.end.k = "date")
     => /\ IF InRange(store, last') = {}
             THEN last'.res =
                    ERR(Error("No keys found, cannot get expiredRange.", <<>>))
             ELSE /\ last'.res.success
                  /\ Returned(last'.res) = Logical(last'.h, InRange(store, last'))
        /\ store' = store]_vars

\* C31: expiredRange(start, end) with numbers as bounds takes them as epoch
\* milliseconds: it returns the keys of the rows in scope with
\* start <= expires_at <= end, and fails with 'No keys found' when there is
\* none.
C31_NumericBoundsAreEpochMs ==
  [][(last'.op = "expiredRange"
        /\ last'.arg.start.k = "number" /\ last'.arg.end.k = "number")
     => IF InRange(store, last') = {}
          THEN last'.res =
                 ERR(Error("No keys found, cannot get expiredRange.", <<>>))
          ELSE /\ last'.res.success
               /\ Returned(last'.res) = Logical(last'.h, InRange(store, last'))]_vars

\* C32: persist(k) on a key that has a row returns true, sets expires_at of
\* that row to null and changes nothing else, and the get(k) that follows
\* returns the value of the row; on a key that has no row it fails with
\* 'Key not found, cannot persist.' and the store is as it was.
C32_PersistClearsExpiration ==
  [][last'.op = "persist"
     => IF HasRow(store, PhysicalKey(last'))
          THEN /\ last'.res = OK(Val("boolean", 1))
               /\ DOMAIN store' = DOMAIN store
               /\ \A key \in DOMAIN store :
                    store'[key] =
                      IF key = PhysicalKey(last')
                        THEN Row(store[key].value, <<>>)
                      ELSE store[key]
               /\ get(store', now, last'.h, last'.key).res =
                    OK(ValueOf(store, PhysicalKey(last')))
          ELSE /\ last'.res = ERR(Error("Key not found, cannot persist.", <<>>))
               /\ store' = store]_vars

\* A persist through the namespace found a row whose expiration had passed
\* and left it without one.
C32_Witness ==
  /\ last.op = "persist"
  /\ last.h = <<"a">>
  /\ last.arg # <<>>
  /\ Expired(last.arg[1], now)
  /\ last.res.success
  /\ store[PhysicalKey(last)].expires_at = <<>>

\* An expiresAt as epoch milliseconds: the time of a Date, now plus a number.
Normalized(expiresAt, t) ==
  IF expiresAt.k = "date" THEN expiresAt.n ELSE t + expiresAt.n

\* C33: setExpire(k, e) with a Date or a number returns success, creates and
\* removes no row and changes no value; the row of k, if there is one, gets
\* the normalized e as expires_at, and every other row is as it was.
C33_SetExpireChangesOnlyExpiration ==
  [][(last'.op = "setExpire" /\ last'.arg.k \in {"date", "number"})
     => /\ last'.res.success
        /\ DOMAIN store' = DOMAIN store
        /\ \A key \in DOMAIN store :
             store'[key] =
               IF key = PhysicalKey(last')
                 THEN Row(store[key].value, <<Normalized(last'.arg, now)>>)
               ELSE store[key]]_vars

\* The list a Result carries, the empty list for a failure.
ListOf(res) == IF res.success THEN res.data.list ELSE <<>>

\* The elements of list at the positions from + 1 .. from + n that it has.
Slice(list, from, n) ==
  SubSeq(list, from + 1, IF from + n > Len(list) THEN Len(list) ELSE from + n)

C35_NamespaceNestingIsTransitive ==
  [][/\ last'.op = "namespace"
          => /\ last'.res.handle =
                  IF last'.h = Root THEN last'.arg
                  ELSE last'.h \o <<":">> \o last'.arg
             /\ store' = store
     /\ (last'.op = "set" /\ last'.h = namespace(namespace(Root, <<"a">>), <<"b">>))
          => LET row == <<"a", ":", "b", ":">> \o last'.key
                 viaRoot == get(store', now, Root, row).res
                 viaA == get(store', now, <<"a">>, <<"b", ":">> \o last'.key).res
                 viaNested == get(store', now, last'.h, last'.key).res
             IN /\ last'.h = <<"a", ":", "b">>
                /\ HasRow(store', row)
                /\ DOMAIN store' = DOMAIN store \cup {row}
                /\ viaRoot = viaA /\ viaA = viaNested
                /\ Alive(store'[row], now) => viaRoot = OK(last'.arg.value)]_vars

\* A set through the nested handle wrote the row a:b:k, with the row k of
\* the root in the store.
C35_Witness ==
  /\ last.op = "set"
  /\ last.h = <<"a", ":", "b">>
  /\ last.res.success
  /\ HasRow(store, <<"a", ":", "b", ":", "k">>)
  /\ HasRow(store, <<"k">>)

\* C36: a row whose expiration has passed is not readable after any step
\* that is not a set of its key: the get of its key fails.
C36_ExpiredStaysAbsent ==
  [][\A key \in DOMAIN store :
       (/\ Expired(store[key], now)
        /\ ~(last'.op = "set" /\ PhysicalKey(last') = key))
       => ~get(store', now', Root, key).res.success]_vars

\* The physical rows a read is about: the row of its key, the rows of the
\* keys it lists.
ReadRows(call) ==
  IF call.op = "multiGet" THEN Listed(call) ELSE {PhysicalKey(call)}

\* C37: a get, ttl or multiGet through any handle creates no row and leaves
\* every row other than the rows of its own keys as it was.
C37_ReadsTouchOnlyTheirRow ==
  [][last'.op \in {"get", "ttl", "multiGet"}
     => /\ DOMAIN store' \subseteq DOMAIN store
        /\ \A key \in DOMAIN store \ ReadRows(last') :
             HasRow(store', key) /\ store'[key] = store[key]]_vars

\* C38: addNamespacePrefix(k) is p + ":" + k (k at the root) and
\* removeNamespacePrefix gives k back from it; removeNamespacePrefix returns
\* a key that does not start with p + ":" unchanged, takes exactly p + ":"
\* off one that does, and is the identity at the root.
C38_PrefixFunctionsAreInverse ==
  /\ last.op = "addNamespacePrefix"
       => /\ last.res.key =
               IF last.h = Root THEN last.key ELSE last.h \o <<":">> \o last.key
          /\ removeNamespacePrefix(last.h, last.res.key) = last.key
  /\ last.op = "removeNamespacePrefix"
       => IF last.h # Root
               /\ Len(last.key) > Len(last.h)
               /\ \A i \in 1..Len(last.h) : last.key[i] = last.h[i]
               /\ last.key[Len(last.h) + 1] = ":"
            THEN last.h \o <<":">> \o last.res.key = last.key
            ELSE last.res.key = last.key

\* removeNamespacePrefix through namespace a was given the key "ak", which
\* starts with the characters of the prefix and lacks the ":", and
\* returned it as it is.
C38_Witness ==
  /\ last.op = "removeNamespacePrefix"
  /\ last.h = <<"a">>
  /\ last.key = <<"a", "k">>
  /\ last.res.key = <<"a", "k">>

\* A list of keys without the later occurrences of a key.
RECURSIVE FirstOccurrences(_)
FirstOccurrences(list) ==
  IF list = <<>> THEN <<>>
  ELSE LET front == SubSeq(list, 1, Len(list) - 1)
           rest == FirstOccurrences(front)
       IN IF \E i \in 1..Len(front) : front[i] = list[Len(list)] THEN rest
          ELSE Append(rest, list[Len(list)])

\* The values of the keys of list that have an alive row, in the order of
\* the list.
RECURSIVE InRequestOrder(_, _, _, _)
InRequestOrder(s, t, h, list) ==
  IF list = <<>> THEN <<>>
  ELSE LET key == addNamespacePrefix(h, list[1])
           rest == InRequestOrder(s, t, h, Tail(list))
       IN IF HasRow(s, key) /\ Alive(s[key], t)
            THEN <<ValueOf(s, key)>> \o rest
          ELSE rest

\* C39: the list a successful multiGet returns holds the values of the
\* requested keys that have an alive row, in the order of the request; a
\* key named twice counts once, at its first place, or at each place.
C39_MultiGetPreservesRequestOrder ==
  [][(last'.op = "multiGet" /\ last'.res.success)
     => \/ last'.res.data.list = InRequestOrder(store, now, last'.h, last'.batch)
        \/ last'.res.data.list =
             InRequestOrder(store, now, last'.h, FirstOccurrences(last'.batch))]_vars

\* The failure of an enumeration that selected no row.
NoKeysFound(op) ==
  ERR(Error(IF op = "keys" THEN "No keys found, cannot get keys."
            ELSE IF op = "pagination" THEN "No keys found, cannot get pagination."
            ELSE "No keys found, cannot get expiredRange.", <<>>))

\* C40: keys, pagination and expiredRange fail with 'No keys found' when no
\* row in the scope of the handle matches (for pagination also when the
\* page starts past the last match, for expiredRange when no match is in
\* the range) and never succeed with an empty list; count and countExpired
\* return 0 when no row in scope matches; none of the five changes the
\* store.
C40_EmptyEnumerationIsFailure ==
  [][IsEnumeration(last')
     => LET scope == InScope(store, last'.h, last'.arg.pattern)
            op == last'.op
        IN /\ (op = "keys" /\ scope = {}) => last'.res = NoKeysFound(op)
           /\ (op = "pagination"
                 /\ (last'.arg.page - 1) * last'.arg.limit >= Cardinality(scope))
                => last'.res = NoKeysFound(op)
           /\ (op = "expiredRange" /\ InRange(store, last') = {})
                => last'.res = NoKeysFound(op)
           /\ (op \in {"keys", "pagination", "expiredRange"} /\ last'.res.success)
                => Len(last'.res.data.list) > 0
           /\ (op \in {"count", "countExpired"} /\ scope = {})
                => last'.res = OK(Num(0))
           /\ store' = store]_vars

====
